---------------------------- MODULE Spec2Model ----------------------------
(***************************************************************************)
(* AutoscoperMockServer: the TCP protocol dispatcher (Socket) and the mock *)
(* Command Surface (AutoscoperMockMainWindow) it calls.                    *)
(*                                                                         *)
(* A byte is a number in 0..255.  A buffer is a sequence of bytes; the C   *)
(* index i of the source is position i+1 of the sequence.  A double is     *)
(* its 8-byte object representation (little-endian IEEE-754), so that      *)
(* "bit-for-bit" is equality of byte sequences.  An int32 is the signed    *)
(* number its 4 little-endian bytes denote.                                *)
(***************************************************************************)
EXTENDS Integers, Sequences, FiniteSets, TLC

(***************************************************************************)
(* Bounds of the model.                                                    *)
(***************************************************************************)
\* number of QTcpSocket objects the server may ever accept
MaxConns == 2
\* a truncated chunk holds the opcode and at most MaxShortPayload payload bytes
MaxShortPayload == 1
\* an uninitialized unsigned int holds any value in 0..MaxDim
MaxDim == 2

(***************************************************************************)
(* Bytes, integers and doubles as the build lays them out in memory.       *)
(***************************************************************************)
Range(s) == {s[i] : i \in DOMAIN s}

\* a sequence of n copies of b: QByteArray(n, b)
Fill(n, b) == [i \in 1..n |-> b]

\* the 4 bytes of a 32-bit integer (two's complement, little-endian)
LE32(i) ==
  LET lo == i % 65536
      hi == ((i - lo) \div 65536) % 65536
  IN  <<lo % 256, lo \div 256, hi % 256, hi \div 256>>

\* *reinterpret_cast<qint32*>(p) for the 4 bytes b at p
Int32(b) ==
  b[1] + 256 * b[2] + 65536 * b[3]
    + 16777216 * (IF b[4] >= 128 THEN b[4] - 256 ELSE b[4])

\* the implicit conversion int -> unsigned int of an argument: the same 32
\* bits read as an unsigned number, kept as its two 16-bit halves
ToUnsigned(i) ==
  LET lo == i % 65536
  IN  [hi |-> ((i - lo) \div 65536) % 65536, lo |-> lo]

\* double literals of the sources, as their object representation
D_0_0 == <<0, 0, 0, 0, 0, 0, 0, 0>>
D_0_1 == <<154, 153, 153, 153, 153, 153, 185, 63>>
D_1_2 == <<51, 51, 51, 51, 51, 51, 243, 63>>
D_2_3 == <<102, 102, 102, 102, 102, 102, 2, 64>>
D_3_4 == <<51, 51, 51, 51, 51, 51, 11, 64>>
D_4_5 == <<0, 0, 0, 0, 0, 0, 18, 64>>
D_6_7 == <<205, 204, 204, 204, 204, 204, 26, 64>>
D_0_5 == <<0, 0, 0, 0, 0, 0, 224, 63>>
D_1_0 == <<0, 0, 0, 0, 0, 0, 240, 63>>
D_2_0 == <<0, 0, 0, 0, 0, 0, 0, 64>>
D_3_0 == <<0, 0, 0, 0, 0, 0, 8, 64>>
D_4_0 == <<0, 0, 0, 0, 0, 0, 16, 64>>
D_5_0 == <<0, 0, 0, 0, 0, 0, 20, 64>>
D_6_0 == <<0, 0, 0, 0, 0, 0, 24, 64>>

RECURSIVE Flatten(_)
\* the bytes of a vector of doubles, element after element
Flatten(v) == IF v = <<>> THEN <<>> ELSE Head(v) \o Flatten(Tail(v))

\* data[i] for a buffer of Len(data) bytes; an index past the end of the
\* allocation is undefined behaviour and reads whatever byte g lies there
At(data, i, g) == IF i < Len(data) THEN data[i + 1] ELSE g

\* the n bytes at &data[off]
Bytes(data, off, n, g) == [k \in 1..n |-> At(data, off + k - 1, g)]

\* reinterpret_cast<qint32*>(&data[off]) dereferenced
ReadInt32(data, off, g) == Int32(Bytes(data, off, 4, g))

\* reinterpret_cast<double*>(&data[off])[k], k = 0..
ReadDouble(data, off, k, g) == Bytes(data, off + 8 * k, 8, g)

\* pose.assign(pose_data, pose_data + 6)
ReadPose(data, off, g) == [k \in 1..6 |-> ReadDouble(data, off, k - 1, g)]

(***************************************************************************)
(* What a handler does, as the sequence of its observable events: the      *)
(* Command Surface calls it makes and the replies it writes, in order.     *)
(***************************************************************************)
\* m_mainwindow->name(args); "to" is 0, no connection
Call(name, args) == [kind |-> "call", name |-> name, to |-> 0, args |-> args]

\* connection->write(bytes)
Write(connection, bytes) ==
  [kind |-> "write", name |-> "write", to |-> connection, args |-> bytes]

(***************************************************************************)
(* AutoscoperMockMainWindow: the Command Surface.  Its state is Pose and   *)
(* Frame; every operation is given by the value it returns or stores.      *)
(***************************************************************************)
\* faulty variant of InitialPose: the last push_back is missing
InitialPoseFive == <<D_0_1, D_1_2, D_2_3, D_3_4, D_4_5>>

\* the six push_back calls of the constructor
InitialPose == <<D_0_1, D_1_2, D_2_3, D_3_4, D_4_5, D_6_7>>

\* int Frame { -1 }
InitialFrame == -1

\* setFrame: the value this->Frame takes
setFrame(frame) == frame

\* faulty variant of getPose: returns the constructor's pose, not the stored one
getPoseInitial(thisPose, volume, frame) == InitialPose

\* getPose: returns this->Pose whatever volume and frame are
getPose(thisPose, volume, frame) == thisPose

\* setPose: the value this->Pose takes
setPose(pose, volume, frame) == pose

\* getNCC: one correlation, 0.5
getNCC(volumeID, xyzpr) == <<D_0_5>>

\* the pixel pushed for (w_idx, h_idx) by the loop body of getImageData
Pixel(w_idx, h_idx, width, height) ==
  LET width_index_right == w_idx > width \div 2
      height_index_bottom == h_idx > height \div 2
      toggle == \/ (width_index_right /\ height_index_bottom)
                \/ (~width_index_right /\ ~height_index_bottom)
  IN  IF toggle THEN 255 ELSE 0

\* faulty variant of getImageData: the inner loop runs to h_idx = height
getImageDataInclusive(volumeID, camera, xyzpr, width, height) ==
  [k \in 1..(width * (height + 1)) |->
     Pixel((k - 1) \div (height + 1), (k - 1) % (height + 1), width, height)]
\* getImageData: width and height are only read, never assigned; the image
\* is filled with w_idx outermost
getImageData(volumeID, camera, xyzpr, width, height) ==
  [k \in 1..(width * height) |->
     Pixel((k - 1) \div height, (k - 1) % height, width, height)]

(***************************************************************************)
(* Strings.                                                                *)
(***************************************************************************)
RECURSIVE CStr(_)
\* filename.c_str() read as a C string: the bytes before the first zero byte
CStr(bytes) ==
  IF bytes = <<>> \/ Head(bytes) = 0 THEN <<>>
  ELSE <<Head(bytes)>> \o CStr(Tail(bytes))

\* QString(const char*): UTF-8 decoding.  A byte below 128 is its own code
\* point; the bytes of 128 and above that the model feeds in (255) start
\* no valid sequence and decode to U+FFFD (65533)
QStringOf(cstr) ==
  [i \in 1..Len(cstr) |-> IF cstr[i] < 128 THEN cstr[i] ELSE 65533]

\* QString(std::string(&data[off], n).c_str())
Filename(data, off, n, g) == QStringOf(CStr(Bytes(data, off, n, g)))

(***************************************************************************)
(* State.                                                                  *)
(***************************************************************************)
VARIABLES
  clientConnections, \* Socket::clientConnections, the live-connection vector
  sockState,         \* each QTcpSocket object: "unborn", "connected", "closed"
  Pose,              \* AutoscoperMockMainWindow::Pose, a vector of doubles
  Frame,             \* AutoscoperMockMainWindow::Frame
  running,           \* the process has not been terminated
  last,              \* the slot invoked last: which, its sender, its chunk
  trace,             \* the events of the slot invoked last, in order
  lastSetPose,       \* history: the pose of the latest setPose call
  poseSetFor,        \* history: per (volume, frame), the pose last set for it
  alive,             \* the Socket object exists: constructed, not destroyed
  listening,         \* tcpServer listens
  received,          \* history: per connection, the opcodes read from it
  sent               \* history: per connection, the first bytes written to it

vars == <<clientConnections, sockState, Pose, Frame, running, last, trace,
          lastSetPose, poseSetFor, alive, listening, received, sent>>

\* the QTcpSocket objects nextPendingConnection() may return
Conns == 1..MaxConns

(***************************************************************************)
(* Socket::handleMessage, one operator per case of the switch.  Each gives *)
(* [trace, Pose, Frame, hi, thrown]: the events, the Command Surface state *)
(* afterwards, the highest index of data read, and whether an exception    *)
(* left the handler.  g is the byte an out-of-bounds read yields.          *)
(***************************************************************************)
Result(events, pose, frame, hi) ==
  [trace |-> events, Pose |-> pose, Frame |-> frame, hi |-> hi, thrown |-> FALSE]

\* std::string(&data[off], length - off) with length < off: the count
\* converts to a size_t above max_size() and the constructor throws
\* std::length_error before anything else of the case runs
Thrown == [trace |-> <<>>, Pose |-> Pose, Frame |-> Frame, hi |-> 0, thrown |-> TRUE]

Max(a, b) == IF a >= b THEN a ELSE b

\* unsigned char message_type = data[0]
MessageType(data, g) == At(data, 0, g)

\* QByteArray(1, k)
Ack(k) == Fill(1, k)

Case1(connection, data, length, g) ==
  IF length - 1 < 0 THEN Thrown
  ELSE Result(<<Call("openTrial", <<Filename(data, 1, length - 1, g)>>),
                Write(connection, Ack(1))>>,
              Pose, Frame, Max(0, length - 1))

\* cases 2 and 3: the six flags are true, true, true, false, false, false
TrackingCase(connection, data, length, g, name, k) ==
  IF length - 5 < 0 THEN Thrown
  ELSE Result(<<Call(name, <<Filename(data, 5, length - 5, g),
                             TRUE, TRUE, TRUE, FALSE, FALSE, FALSE,
                             ReadInt32(data, 1, g)>>),
                Write(connection, Ack(k))>>,
              Pose, Frame, Max(4, length - 1))

Case2(connection, data, length, g) ==
  TrackingCase(connection, data, length, g, "load_tracking_results", 2)

Case3(connection, data, length, g) ==
  TrackingCase(connection, data, length, g, "save_tracking_results", 3)

Case4(connection, data, length, g) ==
  IF length - 5 < 0 THEN Thrown
  ELSE Result(<<Call("loadFilterSettings",
                     <<ReadInt32(data, 1, g), Filename(data, 5, length - 5, g)>>),
                Write(connection, Ack(4))>>,
              Pose, Frame, Max(4, length - 1))

\* faulty variant of Case5: the reply is written before setFrame is called
Case5ReplyFirst(connection, data, length, g) ==
  LET frame == ReadInt32(data, 1, g)
  IN  Result(<<Write(connection, Ack(5)), Call("setFrame", <<frame>>)>>,
             Pose, setFrame(frame), 4)

Case5(connection, data, length, g) ==
  LET frame == ReadInt32(data, 1, g)
  IN  Result(<<Call("setFrame", <<frame>>), Write(connection, Ack(5))>>,
             Pose, setFrame(frame), 4)

\* array.append(ptr, sizeof(double) * 6) copies 48 bytes from &pose[0]
Case6(connection, data, length, g) ==
  LET volume == ToUnsigned(ReadInt32(data, 1, g))
      frame == ToUnsigned(ReadInt32(data, 5, g))
      pose == getPose(Pose, volume, frame)
  IN  Result(<<Call("getPose", <<volume, frame>>),
               Write(connection, Ack(6) \o Bytes(Flatten(pose), 0, 48, g))>>,
             Pose, Frame, 8)

\* faulty variant of Case7: the pose is read at offset 5, as in case 8
Case7WrongOffset(connection, data, length, g) ==
  LET volume == ToUnsigned(ReadInt32(data, 1, g))
      frame == ToUnsigned(ReadInt32(data, 5, g))
      pose == ReadPose(data, 5, g)
  IN  Result(<<Call("setPose", <<pose, volume, frame>>),
               Write(connection, Ack(7))>>,
             setPose(pose, volume, frame), Frame, 56)

Case7(connection, data, length, g) ==
  LET volume == ToUnsigned(ReadInt32(data, 1, g))
      frame == ToUnsigned(ReadInt32(data, 5, g))
      pose == ReadPose(data, 9, g)
  IN  Result(<<Call("setPose", <<pose, volume, frame>>),
               Write(connection, Ack(7))>>,
             setPose(pose, volume, frame), Frame, 56)

\* faulty variant of CountByte: the number of bytes, not of doubles
CountByteOfBytes(size) == (8 * size) % 256

\* QByteArray(1, ncc.size()): the size converted to one char
CountByte(size) == size % 256

Case8(connection, data, length, g) ==
  LET volume == ToUnsigned(ReadInt32(data, 1, g))
      pose == ReadPose(data, 5, g)
      ncc == getNCC(volume, pose)
  IN  Result(<<Call("getNCC", <<volume, pose>>),
               Write(connection,
                     Ack(8) \o Fill(1, CountByte(Len(ncc)))
                       \o Bytes(Flatten(ncc), 0, 8 * Len(ncc), g))>>,
             Pose, Frame, 52)

Case9(connection, data, length, g) ==
  Result(<<Call("setBackground", <<ReadDouble(data, 1, 0, g)>>),
           Write(connection, Ack(9))>>,
         Pose, Frame, 8)

\* width and height are declared without an initializer, passed by
\* reference and never assigned: they hold the indeterminate values w0, h0
Case10(connection, data, length, g, w0, h0) ==
  LET volume == ToUnsigned(ReadInt32(data, 1, g))
      camera == ToUnsigned(ReadInt32(data, 5, g))
      pose == ReadPose(data, 9, g)
      width == w0
      height == h0
      img_Data == getImageData(volume, camera, pose, width, height)
  IN  Result(<<Call("getImageData", <<volume, camera, pose>>),
               Write(connection,
                     Ack(10) \o LE32(width) \o LE32(height) \o img_Data)>>,
             Pose, Frame, 56)

\* faulty variant of Case11: the frame optimized becomes the stored frame
Case11SetsFrame(connection, data, length, g) ==
  Result(<<Call("optimizeFrame",
                <<ReadInt32(data, 1, g), ReadInt32(data, 5, g), 1,
                  ReadInt32(data, 9, g), 0,
                  ToUnsigned(ReadInt32(data, 13, g)),
                  ReadDouble(data, 17, 0, g), ReadDouble(data, 25, 0, g), 0,
                  ToUnsigned(ReadInt32(data, 33, g))>>),
           Write(connection, Ack(11))>>,
         Pose, setFrame(ReadInt32(data, 5, g)), 36)

\* dframe = 1, opt_method = 0, cf_model = 0
Case11(connection, data, length, g) ==
  Result(<<Call("optimizeFrame",
                <<ReadInt32(data, 1, g), ReadInt32(data, 5, g), 1,
                  ReadInt32(data, 9, g), 0,
                  ToUnsigned(ReadInt32(data, 13, g)),
                  ReadDouble(data, 17, 0, g), ReadDouble(data, 25, 0, g), 0,
                  ToUnsigned(ReadInt32(data, 33, g))>>),
           Write(connection, Ack(11))>>,
         Pose, Frame, 36)

Case12(connection, data, length, g) ==
  Result(<<Call("saveFullDRR", <<>>), Write(connection, Ack(12))>>,
         Pose, Frame, 0)

\* faulty variant of CaseDefault: the opcode is echoed as in the other cases
CaseDefaultEcho(connection, data, length, g) ==
  Result(<<Write(connection, Fill(1, MessageType(data, g)))>>, Pose, Frame, 0)

\* default: "Cannot handle message"
CaseDefault(connection, data, length, g) ==
  Result(<<Write(connection, Fill(1, 0))>>, Pose, Frame, 0)

handleMessage(connection, data, length, g, w0, h0) ==
  LET message_type == MessageType(data, g)
  IN  CASE message_type = 1 -> Case1(connection, data, length, g)
        [] message_type = 2 -> Case2(connection, data, length, g)
        [] message_type = 3 -> Case3(connection, data, length, g)
        [] message_type = 4 -> Case4(connection, data, length, g)
        [] message_type = 5 -> Case5(connection, data, length, g)
        [] message_type = 6 -> Case6(connection, data, length, g)
        [] message_type = 7 -> Case7(connection, data, length, g)
        [] message_type = 8 -> Case8(connection, data, length, g)
        [] message_type = 9 -> Case9(connection, data, length, g)
        [] message_type = 10 -> Case10(connection, data, length, g, w0, h0)
        [] message_type = 11 -> Case11(connection, data, length, g)
        [] message_type = 12 -> Case12(connection, data, length, g)
        [] OTHER -> CaseDefault(connection, data, length, g)

(***************************************************************************)
(* The chunks a client may deliver in one read event: requests in the wire *)
(* layout that handleMessage decodes, whole or cut short.                  *)
(***************************************************************************)
ZeroPose == <<D_0_0, D_0_0, D_0_0, D_0_0, D_0_0, D_0_0>>
PoseA == <<D_1_0, D_2_0, D_3_0, D_4_0, D_5_0, D_6_0>>

PoseInputs == {ZeroPose, PoseA}
VolumeInputs == {0, 1}
FrameInputs == {0, 258}
IndexInputs == {-1, 1}
\* "", "ab", "a\0b"
FilenameInputs == {<<>>, <<97, 98>>, <<97, 0, 98>>}

SetPoseRequest(v, f, p) == <<7>> \o LE32(v) \o LE32(f) \o Flatten(p)
GetPoseRequest(v, f) == <<6>> \o LE32(v) \o LE32(f)
OptimizeRequest == <<11>> \o LE32(1) \o LE32(258) \o LE32(1) \o LE32(-1)
                     \o D_0_0 \o D_1_0 \o LE32(1)
ImageRequest(v, c, p) == <<10>> \o LE32(v) \o LE32(c) \o Flatten(p)

Requests ==
     {<<1>> \o fn : fn \in FilenameInputs}
  \cup {<<op>> \o LE32(i) \o fn :
          op \in {2, 3, 4}, i \in IndexInputs, fn \in FilenameInputs}
  \cup {<<5>> \o LE32(258)}
  \cup {GetPoseRequest(v, f) : v \in VolumeInputs, f \in FrameInputs}
  \cup {SetPoseRequest(v, f, p) :
          v \in VolumeInputs, f \in FrameInputs, p \in PoseInputs}
  \cup {<<8>> \o LE32(v) \o Flatten(PoseA) : v \in VolumeInputs}
  \cup {<<9>> \o D_0_5}
  \cup {ImageRequest(0, 0, ZeroPose), ImageRequest(1, 1, PoseA)}
  \cup {OptimizeRequest}
  \cup {<<12>>, <<12, 7>>}
  \cup {<<op>> \o rest : op \in {0, 13, 128, 255}, rest \in {<<>>, <<7, 0, 1>>}}

\* the lengths at which a request may arrive: whole, or the opcode with at
\* most MaxShortPayload bytes of payload
ChunkLengths(m) == {n \in 1..Len(m) : n = Len(m) \/ n <= 1 + MaxShortPayload}

ChunksOf(requests) ==
  UNION {{SubSeq(m, 1, n) : n \in ChunkLengths(m)} : m \in requests}

\* what one client alone may send
Chunks == ChunksOf(Requests)

\* what each of several clients may send: a request of every opcode, two
\* poses for two volumes, an unknown opcode and a request cut short
SessionChunks ==
  {<<1, 97, 98>>, <<2>> \o LE32(1) \o <<97, 98>>, <<3>> \o LE32(1) \o <<97, 98>>,
   <<4>> \o LE32(1) \o <<97, 98>>, <<5>> \o LE32(258),
   GetPoseRequest(0, 0), GetPoseRequest(1, 0),
   SetPoseRequest(0, 0, PoseA), SetPoseRequest(1, 0, ZeroPose),
   <<8>> \o LE32(1) \o Flatten(PoseA), <<9>> \o D_0_5, <<9>>,
   ImageRequest(0, 0, ZeroPose), OptimizeRequest, <<12>>, <<0>>, <<13, 7>>}

\* the bytes that may lie past the end of the chunk's allocation
GarbageBytes == {0, 255}

\* the values an uninitialized unsigned int may hold
IndeterminateUInt == 0..MaxDim

\* What the build leaves open when handleMessage runs on data: the byte g
\* an out-of-bounds read yields and whether such a read faults instead
\* (both matter only when some index >= Len(data) is read), and the values
\* w0, h0 of the uninitialized width and height (only case 10 has them; the
\* opcode of an empty chunk is itself read out of bounds and may be 10).
Outcomes(data, hi) ==
  {[g |-> g, fault |-> fault, w0 |-> w0, h0 |-> h0] :
     g \in IF hi >= Len(data) THEN GarbageBytes ELSE {0},
     fault \in IF hi >= Len(data) THEN BOOLEAN ELSE {FALSE},
     w0 \in IF At(data, 0, 10) = 10 THEN IndeterminateUInt ELSE {0},
     h0 \in IF At(data, 0, 10) = 10 THEN IndeterminateUInt ELSE {0}}

(***************************************************************************)
(* The slots of Socket.                                                    *)
(***************************************************************************)
\* faulty variant of EraseRemove: the last element is erased
EraseLast(conns, obj) ==
  IF conns = <<>> THEN <<>> ELSE SubSeq(conns, 1, Len(conns) - 1)

\* faulty variant of EraseRemove: nothing is erased
NoErase(conns, obj) == conns

\* std::remove + erase: every occurrence of obj leaves, the rest keep order
EraseRemove(conns, obj) == SelectSeq(conns, LAMBDA x : x # obj)

\* faulty variant of SenderSocket: the first live connection, whoever emitted
FirstClient(emitter) == clientConnections[1]

\* dynamic_cast<QTcpSocket *>(sender()): the object that emitted the signal
SenderSocket(emitter) == emitter

\* the (volume, frame) pairs the clients name
Keys == {<<ToUnsigned(v), ToUnsigned(f)>> : v \in VolumeInputs, f \in FrameInputs}

Init ==
  /\ clientConnections = <<>>
  /\ sockState = [c \in Conns |-> "unborn"]
  /\ Pose = InitialPose
  /\ Frame = InitialFrame
  /\ running = TRUE
  /\ last = [handler |-> "Socket", sender |-> 0, data |-> <<>>, hi |-> -1]
  /\ trace = <<>>
  /\ lastSetPose = <<>>
  /\ poseSetFor = [k \in Keys |-> <<>>]
  /\ alive = TRUE
  /\ listening = TRUE
  /\ received = [c \in Conns |-> <<>>]
  /\ sent = [c \in Conns |-> <<>>]

\* a client connects: nextPendingConnection() returns a new object c
createNewConnection(c) ==
  /\ running
  /\ sockState[c] = "unborn"
  /\ sockState' = [sockState EXCEPT ![c] = "connected"]
  /\ clientConnections' = Append(clientConnections, c)
  /\ last' = [handler |-> "createNewConnection", sender |-> c, data |-> <<>>, hi |-> -1]
  /\ trace' = <<>>
  /\ UNCHANGED <<Pose, Frame, running>>

\* the socket emitter has emitted disconnected
deleteConnection(emitter) ==
  /\ running
  /\ sockState[emitter] = "connected"
  /\ LET obj == SenderSocket(emitter)
     IN  /\ clientConnections' = EraseRemove(clientConnections, obj)
         /\ sockState' = [sockState EXCEPT ![emitter] = "closed"]
         /\ last' = [handler |-> "deleteConnection", sender |-> obj, data |-> <<>>, hi |-> -1]
  /\ trace' = <<>>
  /\ UNCHANGED <<Pose, Frame, running>>

\* the socket emitter has emitted readyRead with one of chunks available.
\* A read past the end of data either yields garbage or faults; a fault or
\* an uncaught exception terminates the process.
reading(emitter, chunks) ==
  /\ running
  /\ sockState[emitter] = "connected"
  /\ \E data \in chunks :
       \E hi \in {handleMessage(SenderSocket(emitter), data, Len(data), 0, 0, 0).hi} :
         \E o \in Outcomes(data, hi) :
           \E r \in {handleMessage(SenderSocket(emitter), data, Len(data),
                                   o.g, o.w0, o.h0)} :
             LET dies == r.thrown \/ o.fault
             IN  /\ last' = [handler |-> "reading", sender |-> emitter,
                             data |-> data, hi |-> hi]
                 /\ running' = ~dies
                 /\ trace' = IF dies THEN <<>> ELSE r.trace
                 /\ Pose' = IF dies THEN Pose ELSE r.Pose
                 /\ Frame' = IF dies THEN Frame ELSE r.Frame
  /\ UNCHANGED <<clientConnections, sockState>>

\* the history variables follow the setPose calls of the step
Observe ==
  LET calls == SelectSeq(trace', LAMBDA e : e.kind = "call" /\ e.name = "setPose")
  IN  IF calls = <<>>
      THEN UNCHANGED <<lastSetPose, poseSetFor>>
      ELSE LET args == calls[1].args
               key == <<args[2], args[3]>>
           IN  /\ lastSetPose' = args[1]
               /\ poseSetFor' = IF key \in Keys /\ last'.hi < Len(last'.data)
                                THEN [poseSetFor EXCEPT ![key] = args[1]]
                                ELSE poseSetFor

\* a slot leaves the Socket and the server as they are; the per-connection
\* histories are kept only where a specification says so
SlotFrame == UNCHANGED <<alive, listening>>
NoHistory == UNCHANGED <<received, sent>>
NoPoseHistory == UNCHANGED <<lastSetPose, poseSetFor>>

Next ==
  \/ \E c \in Conns : createNewConnection(c) /\ Observe /\ SlotFrame /\ NoHistory
  \/ \E c \in Conns : deleteConnection(c) /\ Observe /\ SlotFrame /\ NoHistory
  \/ \E c \in Conns : reading(c, SessionChunks) /\ Observe /\ SlotFrame /\ NoHistory

\* several clients, each sending any of SessionChunks
Spec == Init /\ [][Next]_vars

NextDispatch ==
  \/ createNewConnection(1) /\ NoPoseHistory /\ SlotFrame /\ NoHistory
  \/ reading(1, Chunks) /\ NoPoseHistory /\ SlotFrame /\ NoHistory

\* one client sending any of Chunks
SpecDispatch == Init /\ [][NextDispatch]_vars

\* one client whose readyRead may also come with no byte available:
\* reading() does not look at avail before it dispatches
NextEmptyRead ==
  \/ createNewConnection(1) /\ NoPoseHistory /\ SlotFrame /\ NoHistory
  \/ reading(1, SessionChunks \cup {<<>>}) /\ NoPoseHistory /\ SlotFrame /\ NoHistory

SpecEmptyRead == Init /\ [][NextEmptyRead]_vars

(***************************************************************************)
(* The destructor and the life of the connections                          *)
(***************************************************************************)
MaxClients == 3

Clients == 1..MaxClients

\* the chunks read while connections come and go
LifecycleChunks == {<<12>>, <<13, 7>>}

\* ~Socket: for (auto &a : clientConnections) a->disconnectFromHost().
\* disconnectFromHost on a connected socket emits disconnected, whose slot
\* deleteConnection erases from the vector being iterated: the loop's
\* iterators are invalidated.  With the vector's storage left in place the
\* loop goes on over storage up to the end it took at the start (it counts
\* slots from 0): std::remove has moved the kept pointers to the front and
\* the slots behind them keep what they held.  On a socket already closed
\* disconnectFromHost does nothing.
RECURSIVE DestructorLoop(_, _, _, _)
DestructorLoop(storage, size, it, state) ==
  IF it >= Len(storage)
  THEN [clientConnections |-> SubSeq(storage, 1, size), sockState |-> state]
  ELSE LET a == storage[it + 1]
       IN  IF state[a] = "connected"
           THEN LET kept == EraseRemove(SubSeq(storage, 1, size), SenderSocket(a))
                IN  DestructorLoop(kept \o SubSeq(storage, Len(kept) + 1, Len(storage)),
                                   Len(kept), it + 1,
                                   [state EXCEPT ![a] = "closed"])
           ELSE DestructorLoop(storage, size, it + 1, state)

\* the Socket is destroyed.  Iterating with invalidated iterators is
\* undefined: the loop either runs over the storage as above or the process
\* is aborted (checked iterators).  tcpServer is neither closed nor deleted.
SocketDestructor ==
  /\ alive
  /\ running
  /\ \E r \in {DestructorLoop(clientConnections, Len(clientConnections), 0, sockState)} :
       \E abort \in IF r.sockState # sockState THEN BOOLEAN ELSE {FALSE} :
         /\ running' = ~abort
         /\ clientConnections' = IF abort THEN clientConnections ELSE r.clientConnections
         /\ sockState' = IF abort THEN sockState ELSE r.sockState
  /\ alive' = FALSE
  /\ last' = [handler |-> "~Socket", sender |-> 0, data |-> <<>>, hi |-> -1]
  /\ trace' = <<>>
  /\ UNCHANGED <<Pose, Frame, listening>>

InitLifecycle ==
  /\ clientConnections = <<>>
  /\ sockState = [c \in Clients |-> "unborn"]
  /\ Pose = InitialPose
  /\ Frame = InitialFrame
  /\ running = TRUE
  /\ last = [handler |-> "Socket", sender |-> 0, data |-> <<>>, hi |-> -1]
  /\ trace = <<>>
  /\ lastSetPose = <<>>
  /\ poseSetFor = [k \in Keys |-> <<>>]
  /\ alive = TRUE
  /\ listening = TRUE
  /\ received = [c \in Clients |-> <<>>]
  /\ sent = [c \in Clients |-> <<>>]

\* the slots are invoked only while the Socket exists
NextLifecycle ==
  \/ \E c \in Clients :
       alive /\ createNewConnection(c) /\ NoPoseHistory /\ SlotFrame /\ NoHistory
  \/ \E c \in Clients :
       alive /\ deleteConnection(c) /\ NoPoseHistory /\ SlotFrame /\ NoHistory
  \/ \E c \in Clients :
       alive /\ reading(c, LifecycleChunks) /\ NoPoseHistory /\ SlotFrame /\ NoHistory
  \/ SocketDestructor /\ NoPoseHistory /\ NoHistory

\* clients connect, send and disconnect until the Socket is destroyed
SpecLifecycle == InitLifecycle /\ [][NextLifecycle]_vars

(***************************************************************************)
(* The requests and replies of each connection, in order                   *)
(***************************************************************************)
MaxHistory == 2

\* the chunks read while the histories are kept
OrderChunks == {<<12>>, <<13, 7>>, <<2>>, <<5>> \o LE32(258)}

\* the first bytes of what a slot wrote to connection c, in order
FirstBytesTo(events, c) ==
  LET writes == SelectSeq(events, LAMBDA e : e.kind = "write" /\ e.to = c)
  IN  [i \in 1..Len(writes) |-> writes[i].args[1]]

\* reading has read a chunk from emitter and written what trace' holds
RecordHistory(emitter) ==
  /\ received' = [received EXCEPT ![emitter] = Append(@, last'.data[1])]
  /\ sent' = [c \in DOMAIN sent |-> sent[c] \o FirstBytesTo(trace', c)]

NextOrder ==
  \/ \E c \in Conns : createNewConnection(c) /\ NoPoseHistory /\ SlotFrame /\ NoHistory
  \/ \E c \in Conns : deleteConnection(c) /\ NoPoseHistory /\ SlotFrame /\ NoHistory
  \/ \E c \in Conns :
       /\ Len(received[c]) < MaxHistory
       /\ reading(c, OrderChunks) /\ RecordHistory(c) /\ NoPoseHistory /\ SlotFrame

\* several clients, the first MaxHistory read events of each recorded
SpecOrder == Init /\ [][NextOrder]_vars

(***************************************************************************)
(* Vocabulary of the properties.                                           *)
(***************************************************************************)
\* the slot invoked last was reading
Reading == last.handler = "reading"

\* the first byte of the chunk read last
Opcode == last.data[1]

\* the number of payload bytes of the chunk read last
PayloadLen == Len(last.data) - 1

\* the total size of the fixed fields of an opcode's payload
FixedSize(op) ==
  CASE op \in {2, 3, 4, 5} -> 4
    [] op \in {6, 9} -> 8
    [] op \in {7, 10} -> 56
    [] op = 8 -> 52
    [] op = 11 -> 36
    [] OTHER -> 0

\* the chunk read last is a request of a known opcode with all its fields
WellFormed == Reading /\ Opcode \in 1..12 /\ PayloadLen >= FixedSize(Opcode)

\* the Command Surface operation of an opcode without data reply
AckCall(op) ==
  CASE op = 1 -> "openTrial"
    [] op = 2 -> "load_tracking_results"
    [] op = 3 -> "save_tracking_results"
    [] op = 4 -> "loadFilterSettings"
    [] op = 5 -> "setFrame"
    [] op = 7 -> "setPose"
    [] op = 9 -> "setBackground"
    [] op = 11 -> "optimizeFrame"
    [] op = 12 -> "saveFullDRR"

\* the slot invoked last wrote exactly the reply bytes to its sender, after
\* the one Command Surface call name
CalledThenReplied(name, bytes) ==
  /\ running
  /\ Len(trace) = 2
  /\ trace[1].kind = "call" /\ trace[1].name = name
  /\ trace[2] = Write(last.sender, bytes)

\* the (volume, frame) a get-pose or set-pose chunk names
KeyOf(data) ==
  <<ToUnsigned(Int32(SubSeq(data, 2, 5))), ToUnsigned(Int32(SubSeq(data, 6, 9)))>>

(***************************************************************************)
(* C1.  A request of opcode 1-12 whose payload is shorter than the         *)
(* opcode's fixed fields gets the single reply byte 0, with no Command     *)
(* Surface call and no read at an index at or past the delivered length.   *)
(* handleMessage has no length check, so this fails.                       *)
(***************************************************************************)
ShortPayloadRejected ==
  (Reading /\ Opcode \in 1..12 /\ PayloadLen < FixedSize(Opcode)) =>
    /\ running
    /\ trace = <<Write(last.sender, <<0>>)>>
    /\ last.hi < Len(last.data)

(***************************************************************************)
(* C2.  A message whose first byte is 0 or in 13..255 gets exactly one     *)
(* reply, the single byte 0, and no Command Surface call, whatever its     *)
(* payload.                                                                *)
(***************************************************************************)
UnknownOpcodeRejected ==
  (Reading /\ Opcode \notin 1..12) =>
    /\ running
    /\ trace = <<Write(last.sender, <<0>>)>>

UnknownOpcodeSeen ==
  /\ Reading /\ Opcode = 255 /\ PayloadLen = 3
  /\ trace = <<Write(last.sender, <<0>>)>>

(***************************************************************************)
(* C3.  A well-formed request of opcode 1, 2, 3, 4, 5, 7, 9, 11 or 12 gets *)
(* exactly one reply, the single byte equal to the opcode, written after   *)
(* the opcode's Command Surface call.                                      *)
(***************************************************************************)
AckEchoesOpcode ==
  (WellFormed /\ Opcode \in {1, 2, 3, 4, 5, 7, 9, 11, 12}) =>
    CalledThenReplied(AckCall(Opcode), <<Opcode>>)

AckSeen ==
  /\ WellFormed /\ Opcode = 5
  /\ Frame = 258
  /\ CalledThenReplied("setFrame", <<5>>)

(***************************************************************************)
(* C4.  Round trip: when a whole set-pose request (volume, frame, pose) is *)
(* followed at once by a whole get-pose request for the same (volume,      *)
(* frame), the get-pose reply is the byte 6 and then the 48 pose bytes of  *)
(* the set-pose request, unchanged and in the same order.                  *)
(***************************************************************************)
SetThenGetRoundTrip ==
  [][(/\ WellFormed /\ Opcode = 7 /\ running
      /\ last'.handler = "reading" /\ last'.data[1] = 6
      /\ Len(last'.data) >= 9
      /\ KeyOf(last'.data) = KeyOf(last.data))
     => /\ running'
        /\ Len(trace') = 2
        /\ trace'[2] = Write(last'.sender, <<6>> \o SubSeq(last.data, 10, 57))]_vars

RoundTripSeen ==
  /\ WellFormed /\ Opcode = 6
  /\ KeyOf(last.data) = <<ToUnsigned(1), ToUnsigned(258)>>
  /\ CalledThenReplied("getPose", <<6>> \o Flatten(PoseA))

(***************************************************************************)
(* C5.  No cross-talk: whatever the interleaving of the read events of the *)
(* live connections, a reply is written only to the connection whose read  *)
(* event delivered the request, and its first byte is the request's opcode *)
(* (0 for an unrecognized one).                                            *)
(***************************************************************************)
NoCrossTalk ==
  Reading =>
    \A i \in DOMAIN trace :
      trace[i].kind = "write" =>
        /\ trace[i].to = last.sender
        /\ trace[i].args[1] = (IF Opcode \in 1..12 THEN Opcode ELSE 0)

SecondClientAnswered ==
  /\ Len(clientConnections) = 2
  /\ Reading /\ last.sender = clientConnections[2]
  /\ Opcode = 8
  /\ Len(trace) = 2 /\ trace[2].kind = "write" /\ trace[2].to = clientConnections[2]

(***************************************************************************)
(* C6.  As claimed: a get-pose reply for (volume, frame) is the pose last  *)
(* set for that same (volume, frame), whatever was set for other volumes   *)
(* or frames since.  The Command Surface holds one pose, so this fails.    *)
(***************************************************************************)
PoseHeldPerVolumeFrame ==
  (WellFormed /\ Opcode = 6 /\ KeyOf(last.data) \in Keys
     /\ poseSetFor[KeyOf(last.data)] # <<>>) =>
    CalledThenReplied("getPose", <<6>> \o Flatten(poseSetFor[KeyOf(last.data)]))

(***************************************************************************)
(* C6, amended.  A get-pose reply for any (volume, frame) is the pose of   *)
(* the latest setPose call, whatever volume and frame that call named and  *)
(* whichever connection made it (the constructor's pose before any call).  *)
(***************************************************************************)
GetPoseReturnsLatestSet ==
  (Reading /\ Opcode = 6 /\ running) =>
    CalledThenReplied("getPose",
      <<6>> \o Flatten(IF lastSetPose = <<>> THEN InitialPose ELSE lastSetPose))

OtherVolumeOverwrites ==
  /\ WellFormed /\ Opcode = 6
  /\ KeyOf(last.data) = <<ToUnsigned(0), ToUnsigned(0)>>
  /\ poseSetFor[KeyOf(last.data)] = PoseA
  /\ lastSetPose = ZeroPose
  /\ CalledThenReplied("getPose", <<6>> \o Flatten(ZeroPose))

(***************************************************************************)
(* C7.  Once a connection's disconnect has been handled it is not in the   *)
(* live-connection vector in any later state, and no reply is written to   *)
(* it.                                                                     *)
(***************************************************************************)
DisconnectedIsGone ==
  \A c \in Conns :
    sockState[c] = "closed" =>
      /\ c \notin Range(clientConnections)
      /\ \A i \in DOMAIN trace : trace[i].to # c

ReplyAfterDisconnect ==
  /\ \E c \in Conns : sockState[c] = "closed"
  /\ Reading /\ running
  /\ trace # <<>> /\ trace[Len(trace)].kind = "write"

(***************************************************************************)
(* C8.  The Command Surface always holds a pose of exactly 6 doubles, the  *)
(* constructor's 0.1, 1.2, 2.3, 3.4, 4.5, 6.7 at first, and a get-pose     *)
(* reply is the byte 6 and then the 48 bytes of the pose held.             *)
(***************************************************************************)
PoseHasSixValues ==
  /\ Len(Pose) = 6
  /\ \A i \in DOMAIN Pose : Len(Pose[i]) = 8
  /\ last.handler \in {"Socket", "createNewConnection"} =>
       Pose = <<D_0_1, D_1_2, D_2_3, D_3_4, D_4_5, D_6_7>>
  /\ (Reading /\ Opcode = 6 /\ running) =>
       /\ CalledThenReplied("getPose", <<6>> \o Flatten(Pose))
       /\ Len(trace[2].args) = 49

GetPoseAfterSet ==
  /\ WellFormed /\ Opcode = 6
  /\ Pose = PoseA
  /\ CalledThenReplied("getPose", <<6>> \o Flatten(PoseA))

(***************************************************************************)
(* C9.  A correlation reply is the byte 8, a count byte, and the doubles   *)
(* the Command Surface returned; the count byte is the number of doubles   *)
(* that follow it.                                                         *)
(***************************************************************************)
CountByteMatchesDoubles ==
  (Reading /\ Opcode = 8 /\ running) =>
    /\ Len(trace) = 2
    /\ trace[1].kind = "call" /\ trace[1].name = "getNCC"
    /\ trace[2].kind = "write" /\ trace[2].to = last.sender
    /\ LET reply == trace[2].args
           ncc == getNCC(trace[1].args[1], trace[1].args[2])
       IN  /\ Len(reply) >= 2
           /\ reply[1] = 8
           /\ reply[2] = Len(ncc)
           /\ Len(reply) = 2 + 8 * reply[2]
           /\ SubSeq(reply, 3, Len(reply)) = Flatten(ncc)

CorrelationSeen ==
  /\ WellFormed /\ Opcode = 8
  /\ CalledThenReplied("getNCC", <<8, 1>> \o D_0_5)

(***************************************************************************)
(* C10.  In the reference scenario (volume 0, camera 0, zero pose) the     *)
(* image reply is the byte 10, width 4, height 4 and 16 pixel bytes: the   *)
(* Command Surface's render call sets width and height.  getImageData      *)
(* never assigns them, so this fails.                                      *)
(***************************************************************************)
ImageReplyIsFourByFour ==
  (Reading /\ last.data = ImageRequest(0, 0, ZeroPose)) =>
    /\ running
    /\ Len(trace) = 2
    /\ trace[2].kind = "write"
    /\ Len(trace[2].args) = 1 + 4 + 4 + 16
    /\ SubSeq(trace[2].args, 1, 9) = <<10>> \o LE32(4) \o LE32(4)

(***************************************************************************)
(* C11.  Every opcode-10 reply carries, after the opcode byte and the two  *)
(* 4-byte fields width and height, exactly width * height pixel bytes,     *)
(* whatever the (never assigned) width and height are.                     *)
(***************************************************************************)
ImageReplyWidth == Int32(SubSeq(trace[2].args, 2, 5))

ImageReplyHeight == Int32(SubSeq(trace[2].args, 6, 9))

Malformed ==
  Reading /\ (Opcode \notin 1..12 \/ PayloadLen < FixedSize(Opcode))

MalformedKeepsServing ==
  Malformed =>
    /\ running
    /\ sockState[last.sender] = "connected"
    /\ last.sender \in Range(clientConnections)

(***************************************************************************)
(* C13.  The destructor closes every connection that is in                 *)
(* clientConnections when it starts, for any number of them: when it has   *)
(* completed no connection is connected, and the server does not stop      *)
(* listening before that.  The loop skips the connection that moves into   *)
(* an erased slot, so with three connections this fails.                   *)
(***************************************************************************)
ShutdownClosesAll ==
  /\ (last.handler = "~Socket" /\ running) =>
       \A c \in Clients : sockState[c] # "connected"
  /\ ~listening => \A c \in Clients : sockState[c] # "connected"

(***************************************************************************)
(* C14.  Every read event that delivers n > 0 bytes is handled as exactly  *)
(* one message, whose opcode is the first byte and whose payload is the    *)
(* other n - 1 bytes, and it produces exactly one reply, written to the    *)
(* connection it was read from.  A chunk that is the head of a split       *)
(* request is dispatched with a payload shorter than its fixed fields,     *)
(* which can end the process before any reply (C1), so this fails.         *)
(***************************************************************************)
Replies == SelectSeq(trace, LAMBDA e : e.kind = "write")

OneReadOneReply ==
  (Reading /\ Len(last.data) > 0) =>
    /\ running
    /\ Len(Replies) = 1
    /\ Replies[1].to = last.sender
    /\ Replies[1].args[1] = IF Opcode \in 1..12 THEN Opcode ELSE 0

(***************************************************************************)
(* C15.  A read event with zero bytes available is not dispatched: no      *)
(* byte of the (empty) buffer is read as an opcode, no Command Surface     *)
(* operation is called and no reply is written.  reading() calls           *)
(* handleMessage whatever avail is, so this fails.                         *)
(***************************************************************************)
EmptyReadNotDispatched ==
  (Reading /\ last.data = <<>>) =>
    /\ running
    /\ last.hi < 0
    /\ trace = <<>>

(***************************************************************************)
(* C16.  A connection object enters clientConnections once, as a new       *)
(* object on accept, and leaves it once, on its one transition from        *)
(* connected to closed, whatever slots run and whether or not the Socket   *)
(* is destroyed: a closed connection stays closed and is never added       *)
(* again, and no connection is in clientConnections twice.                 *)
(***************************************************************************)
Occurrences(conns, c) == Cardinality({i \in DOMAIN conns : conns[i] = c})

ConnectionLivesOnce ==
  [][\A c \in Clients :
       /\ Occurrences(clientConnections', c) <= 1
       /\ (Occurrences(clientConnections', c) > Occurrences(clientConnections, c)) =>
            (sockState[c] = "unborn" /\ sockState'[c] = "connected")
       /\ (Occurrences(clientConnections', c) < Occurrences(clientConnections, c)) =>
            (sockState[c] = "connected" /\ sockState'[c] = "closed")
       /\ (sockState[c] = "connected" /\ sockState'[c] # "connected") =>
            (sockState'[c] = "closed" /\ Occurrences(clientConnections', c) = 0)
       /\ (sockState[c] = "closed") =>
            (sockState'[c] = "closed" /\ Occurrences(clientConnections', c) = 0)
    ]_vars

LeftOnceAtShutdown ==
  /\ last.handler = "~Socket" /\ running
  /\ sockState[1] = "closed" /\ sockState[3] = "closed"
  /\ clientConnections = <<2>>

(***************************************************************************)
(* C17.  On any one connection the requests are handled one after the      *)
(* other in the order of their read events, each with its reply written    *)
(* before the next is read: whenever a slot has returned, the replies      *)
(* written to a connection are, one for one and in order, the replies to   *)
(* the requests read from it.  A request whose payload is shorter than its *)
(* fixed fields can end the process unanswered (C1), so this fails.        *)
(***************************************************************************)
ExpectedReply(op) == IF op \in 1..12 THEN op ELSE 0

RepliesMatchRequests ==
  \A c \in Conns :
    /\ Len(sent[c]) = Len(received[c])
    /\ \A i \in 1..Len(sent[c]) : sent[c][i] = ExpectedReply(received[c][i])

(***************************************************************************)
(* C18.  For the opcodes 1 to 4 the filename handed to the Command Surface *)
(* is exactly the payload bytes that follow the fixed fields, all of them, *)
(* for every byte sequence, the empty one and those holding a zero byte    *)
(* included.  The QString is built from filename.c_str(), which ends at    *)
(* the first zero byte, so this fails.                                     *)
(***************************************************************************)
FilenameArg == IF Opcode = 4 THEN trace[1].args[2] ELSE trace[1].args[1]

FilenameIsWholeRest ==
  (WellFormed /\ Opcode \in 1..4) =>
    /\ running
    /\ Len(trace) = 2
    /\ trace[1].kind = "call"
    /\ FilenameArg = SubSeq(last.data, FixedSize(Opcode) + 2, Len(last.data))

(***************************************************************************)
(* C19.  clientConnections changes only in createNewConnection, which      *)
(* appends exactly the new connection, and in deleteConnection, which      *)
(* removes exactly the connection that disconnected and leaves the others  *)
(* in place and in order; reading, whatever the opcode it dispatches,      *)
(* leaves it unchanged.                                                    *)
(***************************************************************************)
LiveSetChangesOnlyOnAcceptAndDisconnect ==
  [][/\ \A c \in Conns :
          /\ (sockState[c] = "unborn" /\ sockState'[c] = "connected") =>
               clientConnections' = Append(clientConnections, c)
          /\ (sockState[c] = "connected" /\ sockState'[c] = "closed") =>
               clientConnections' = SelectSeq(clientConnections, LAMBDA x : x # c)
     /\ (clientConnections' # clientConnections) =>
          /\ last'.handler \in {"createNewConnection", "deleteConnection"}
          /\ sockState'[last'.sender] # sockState[last'.sender]
     /\ (last'.handler = "reading") => clientConnections' = clientConnections
    ]_vars

ReadAfterOtherLeft ==
  /\ Reading /\ last.sender = 2 /\ Opcode = 7 /\ running
  /\ sockState[1] = "closed"
  /\ clientConnections = <<2>>

(***************************************************************************)
(* C20.  The stored pose changes only when a chunk of opcode 7 is handled  *)
(* and the stored frame only when a chunk of opcode 5 is handled: every    *)
(* other opcode, known or not, and the other slots leave both unchanged,   *)
(* opcode 5 leaves the pose and opcode 7 leaves the frame unchanged.       *)
(***************************************************************************)
StoredStateChangesOnlyBySetters ==
  [][/\ (Pose' # Pose) => (last'.handler = "reading" /\ last'.data[1] = 7)
     /\ (Frame' # Frame) => (last'.handler = "reading" /\ last'.data[1] = 5)
    ]_vars

StoredStateSurvivesOptimize ==
  /\ WellFormed /\ Opcode = 11 /\ running
  /\ Pose = PoseA
  /\ Frame = 258

=============================================================================
